---- MODULE Spec2Model ----
(***************************************************************************)
(* Model of dustat's disk-usage engine: the arena (du.rs: Stats, Node,     *)
(* Info), the driver (du.rs: Du), the sequential source (du/st.rs), the    *)
(* parallel worker-pool source (du/mt.rs) and the filesystem adapter       *)
(* (util.rs: read_dir).                                                    *)
(*                                                                         *)
(* A NodeId is modelled by the NonZero value it wraps (index + 1), which   *)
(* is also the position of the node in the sequence `nodes`.               *)
(***************************************************************************)
EXTENDS Integers, Sequences, FiniteSets, TLC

\* ------------------------------------------------------------------ bounds
MaxWorkers == 2
MaxPre == 1
MaxReads == 3
MaxBudget == 2
MaxPushes == 3
MaxItems == 3

VARIABLES
    fixture,    \* the directory tree on disk: path -> [open, items]
    mode,       \* which DuSource the Du holds: "st" or "mt"
    nworkers,   \* thread::available_parallelism()
    nodes,      \* Stats.nodes
    entries,    \* st::Source.entries (stack, top is the last element)
    st_errors,  \* st::Source.errors
    running,    \* mt::Source.running
    tasks,      \* mt::Source.tasks (FIFO)
    chan,       \* the mpsc channel tx_entries -> rx_entries
    mt_errors,  \* mt::Source.errors
    threads,    \* the `threads` counter of mt::Source::begin
    wpc,        \* position of each worker in run_thread
    wtask,      \* the task a worker has popped
    wsent,      \* how many callbacks read_dir of that task has made
    dpc,        \* position of the driver thread
    entry,      \* the `entry` local of Du::read (result of next_entry)
    pred,       \* the predicate of this read: always true, or true `left` more times
    count,      \* the `count` local of Du::read
    ret,        \* value returned by the last Du::read
    begins,     \* number of Du::begin calls so far
    pre,        \* number of enqueue calls made on the source before Du::new
    reads,      \* number of Du::read calls so far
    dropped,    \* entries pulled and discarded because the predicate said false
    pushed,     \* history: the Info handed to Stats::push for each node
    started,    \* history: the task queue as the parallel begin() found it
    rd_dir,     \* read_dir on its own: the directory handed to read_dir
    rd_reports, \* read_dir on its own: the callbacks it made, in order
    rd_pc       \* read_dir on its own: "call" before, "done" after ("off": unused)

vars == << fixture, mode, nworkers, nodes, entries, st_errors, running, tasks,
           chan, mt_errors, threads, wpc, wtask, wsent, dpc, entry, pred,
           count, ret, begins, pre, reads, dropped, pushed, started,
           rd_dir, rd_reports, rd_pc >>

duVars == << fixture, mode, nworkers, entries, st_errors, running, tasks,
             chan, mt_errors, threads, wpc, wtask, wsent, dpc, entry, pred,
             count, ret, begins, pre, reads, dropped, started >>

rdVars == << rd_dir, rd_reports, rd_pc >>

\* ------------------------------------------------------------- data model
Kinds == {"Dir", "File", "Other"}

\* impl From<std::fs::FileType> for FileKind
FileKindFrom(ftype) ==
    IF ftype = "dir" THEN "Dir"
    ELSE IF ftype = "file" THEN "File"
    ELSE "Other"

B2N(b) == IF b THEN 1 ELSE 0

\* Info::new
InfoNew(name, kind, size) ==
    [ name  |-> name,
      kind  |-> kind,
      size  |-> size,
      files |-> B2N(kind = "File"),
      dirs  |-> B2N(kind = "Dir"),
      other |-> B2N(kind = "Other") ]

\* Info::default
InfoDefault == InfoNew("", "Other", 0)

\* Info::apply.  The fields are u64 (size) and u32 (counters) and `+=` is
\* unchecked; every sum of this model stays far below 2^32, where the
\* additions are exact.
InfoApply(self, info) ==
    [ self EXCEPT !.size  = @ + info.size,
                  !.files = @ + info.files,
                  !.dirs  = @ + info.dirs,
                  !.other = @ + info.other ]

\* NodeId::ROOT = NodeId::new(0) = NonZero(1)
ROOT == 1

\* NodeId::new
NodeIdNew(id) == id + 1

\* Node::new
NodeNew(info, parent) == [ info |-> info, parent |-> parent, children |-> << >> ]

\* Stats::default
StatsDefault == << NodeNew(InfoDefault, ROOT) >>

\* (a faulty variant of ApplyUp: the walk stops at the parent)
ApplyUpParentOnly(ns, p, info) == [ ns EXCEPT ![p].info = InfoApply(@, info) ]

\* the ancestor walk of Stats::push: apply info to p and to every ancestor
\* of p, stopping at the node that is its own parent
RECURSIVE ApplyUp(_, _, _)
ApplyUp(ns, p, info) ==
    LET applied == [ ns EXCEPT ![p].info = InfoApply(@, info) ]
    IN  IF p # ns[p].parent THEN ApplyUp(applied, ns[p].parent, info)
        ELSE applied

\* (a faulty variant of StatsPush: the new node is linked under the root)
StatsPushUnderRoot(ns, parent, info) ==
    LET id == NodeIdNew(Len(ns))
        linked == [ ns EXCEPT ![ROOT].children = Append(@, id) ]
    IN  Append(ApplyUp(linked, parent, info), NodeNew(info, parent))

\* Stats::push: the arena after the push; the new id is NodeIdNew(Len(ns))
StatsPush(ns, parent, info) ==
    LET id == NodeIdNew(Len(ns))
        linked == [ ns EXCEPT ![parent].children = Append(@, id) ]
    IN  Append(ApplyUp(linked, parent, info), NodeNew(info, parent))

\* Stats::head
StatsHead == nodes[ROOT]

\* -------------------------------------------------- the filesystem adapter
\* A path is the sequence of its components.  A directory on disk is
\* [open, items]: open says whether std::fs::read_dir succeeds on it; an item
\* is [st, ftype, size, name] where st is "ok" or the step that fails for it
\* ("list": the iterator yields Err, "meta": de.metadata() fails).
ItemOk(ftype, size, name) == [ st |-> "ok", ftype |-> ftype, size |-> size, name |-> name ]
ItemBad(st, name) == [ st |-> st, ftype |-> "file", size |-> 0, name |-> name ]
DirOk(items) == [ open |-> TRUE, items |-> items ]
DirLocked == [ open |-> FALSE, items |-> << >> ]

\* Entry::new
EntryNew(parent, info, path) == [ parent |-> parent, info |-> info, path |-> path ]

\* what read_dir hands to its callbacks
\* (an absent field is the empty sequence, a present one a one-element sequence)
Ok(e) == [ ok |-> TRUE, entry |-> << e >>, err |-> << >> ]
Err(path, what) == [ ok |-> FALSE, entry |-> << >>, err |-> << << path, what >> >> ]

\* util::get_name: the last component, or InvalidFilename when there is none
GetName(path) == IF Len(path) > 0 THEN << path[Len(path)] >> ELSE << >>

\* one turn of the `for` loop of read_dir on the item `it` of directory `path`
ReadItem(parent, path, it) ==
    LET p == Append(path, it.name)
        name == GetName(p)
    IN  IF it.st # "ok" THEN Err(p, it.st)
        ELSE IF name = << >> THEN Err(p, "name")
        ELSE Ok(EntryNew(parent, InfoNew(name[1], FileKindFrom(it.ftype), it.size), p))

\* the handle! macro: the first failing item ends the listing (`return`)
FirstBad(parent, path, items) ==
    IF \E i \in 1..Len(items) : ~ReadItem(parent, path, items[i]).ok
    THEN CHOOSE i \in 1..Len(items) :
            /\ ~ReadItem(parent, path, items[i]).ok
            /\ \A j \in 1..(i - 1) : ReadItem(parent, path, items[j]).ok
    ELSE 0

\* util::read_dir on directory `dir` found at `path`: the sequence of callback
\* invocations it makes, on_entry as Ok(entry), on_error as Err(..)
ReadDir(parent, path, dir) ==
    IF ~dir.open THEN << Err(path, "open") >>
    ELSE LET bad == FirstBad(parent, path, dir.items)
             n == IF bad = 0 THEN Len(dir.items) ELSE bad
         IN  [ i \in 1..n |-> ReadItem(parent, path, dir.items[i]) ]

SelectOk(reports) == SelectSeq(reports, LAMBDA r : r.ok)
SelectErr(reports) == SelectSeq(reports, LAMBDA r : ~r.ok)
EntriesOf(reports) == [ i \in 1..Len(SelectOk(reports)) |-> SelectOk(reports)[i].entry[1] ]
ErrorsOf(reports) == [ i \in 1..Len(SelectErr(reports)) |-> SelectErr(reports)[i].err[1] ]

\* ------------------------------------------------------------ the fixtures
\* RootPath is the path handed to Du::begin.
RootPath == << "root" >>

\* root/ (empty)
FxEmpty == [ p \in { RootPath } |-> DirOk(<< >>) ]
\* root/ cannot be opened
FxLockedRoot == [ p \in { RootPath } |-> DirLocked ]
\* root/{a.txt (10 bytes), sub/{b.txt (5 bytes)}}
FxScenario ==
    [ p \in { RootPath, << "root", "sub" >> } |->
        IF p = RootPath
        THEN DirOk(<< ItemOk("file", 10, "a.txt"), ItemOk("dir", 0, "sub") >>)
        ELSE DirOk(<< ItemOk("file", 5, "b.txt") >>) ]
\* root/{s1/{f}, locked/ (cannot be opened), s2/{g}}; a directory has a size
FxLockedSub ==
    [ p \in { RootPath, << "root", "s1" >>, << "root", "locked" >>, << "root", "s2" >> } |->
        CASE p = RootPath ->
                DirOk(<< ItemOk("dir", 1, "s1"), ItemOk("dir", 1, "locked"),
                         ItemOk("dir", 1, "s2") >>)
          [] p = << "root", "s1" >> -> DirOk(<< ItemOk("file", 3, "f") >>)
          [] p = << "root", "locked" >> -> DirLocked
          [] p = << "root", "s2" >> -> DirOk(<< ItemOk("file", 4, "g") >>) ]
\* root/{a, <item whose metadata fails>, b}
FxBadItem ==
    [ p \in { RootPath } |->
        DirOk(<< ItemOk("file", 2, "a"), ItemBad("meta", "x"), ItemOk("file", 7, "b") >>) ]
\* root/{link (a symlink), d/{<item whose listing fails>}}
FxOther ==
    [ p \in { RootPath, << "root", "d" >> } |->
        IF p = RootPath
        THEN DirOk(<< ItemOk("symlink", 2, "link"), ItemOk("dir", 1, "d") >>)
        ELSE DirOk(<< ItemBad("list", "y") >>) ]

Fixtures == { FxEmpty, FxLockedRoot, FxScenario, FxLockedSub, FxBadItem, FxOther }

\* the directory a path names; a path that is no directory cannot be opened
DirAt(path) == IF path \in DOMAIN fixture THEN fixture[path] ELSE DirLocked

\* ------------------------------------------------------ sequential source
\* Option<T>: None is the empty sequence, Some(x) is << x >>
None == << >>
Some(x) == << x >>

\* st::Source::enqueue: read_dir runs at once; entries go on the stack,
\* failures on the error list.  Gives the new [entries, errors].
StEnqueue(ents, errs, parent, path) ==
    LET reports == ReadDir(parent, path, DirAt(path))
    IN  [ entries |-> ents \o EntriesOf(reports),
          errors  |-> errs \o ErrorsOf(reports) ]

\* (a faulty variant of StNextEntry: the entry is returned but stays buffered)
StNextEntryKeep(ents) ==
    IF ents = << >>
    THEN [ panic |-> FALSE, got |-> None, entries |-> ents ]
    ELSE [ panic |-> FALSE, got |-> Some(ents[Len(ents)]), entries |-> ents ]

\* (a faulty variant of StNextEntry: the oldest buffered entry is returned)
StNextEntryOldest(ents) ==
    IF ents = << >>
    THEN [ panic |-> FALSE, got |-> None, entries |-> ents ]
    ELSE [ panic |-> FALSE, got |-> Some(Head(ents)), entries |-> Tail(ents) ]

\* st::Source::next_entry: Vec::pop.  Gives [panic, got, entries].
StNextEntry(ents) ==
    IF ents = << >>
    THEN [ panic |-> FALSE, got |-> None, entries |-> ents ]
    ELSE [ panic |-> FALSE, got |-> Some(ents[Len(ents)]),
           entries |-> SubSeq(ents, 1, Len(ents) - 1) ]

\* -------------------------------------------------------- parallel source
Workers == 1..nworkers

\* mt::Source::enqueue: push_back on the task queue
MtEnqueue(q, parent, path) == Append(q, << parent, path >>)

\* (a faulty variant of HandleErr: the error is swallowed)
HandleErrSwallow(res, errs) ==
    IF res.ok THEN [ got |-> Some(res.entry[1]), errors |-> errs ]
    ELSE [ got |-> None, errors |-> errs ]

\* mt::Source::handle_err: [got, errors]
HandleErr(res, errs) ==
    IF res.ok THEN [ got |-> Some(res.entry[1]), errors |-> errs ]
    ELSE [ got |-> None, errors |-> Append(errs, res.err[1]) ]

\* mt::Source::next_entry: try_recv().unwrap() panics on an empty channel
\* (the Source keeps a Sender, so the channel is never disconnected).
\* Gives [panic, got, chan, errors].
MtNextEntry(ch, errs) ==
    IF ch = << >>
    THEN [ panic |-> TRUE, got |-> None, chan |-> ch, errors |-> errs ]
    ELSE LET h == HandleErr(Head(ch), errs)
         IN  [ panic |-> FALSE, got |-> h.got, chan |-> Tail(ch), errors |-> h.errors ]

\* DuSource::errors
Errors == IF mode = "st" THEN st_errors ELSE mt_errors

\* (a faulty variant of WReports: the worker forwards entries only)
WReportsOkOnly(w) == SelectOk(ReadDir(wtask[w][1], wtask[w][2], DirAt(wtask[w][2])))

\* what read_dir of the task a worker holds reports, in order
WReports(w) == ReadDir(wtask[w][1], wtask[w][2], DirAt(wtask[w][2]))

\* run_thread, `while running.load(Relaxed)`
WLoop(w) ==
    /\ dpc = "begin" /\ wpc[w] = "loop"
    /\ wpc' = [ wpc EXCEPT ![w] = IF running THEN "pop" ELSE "done" ]
    /\ UNCHANGED << fixture, mode, nworkers, nodes, entries, st_errors, running,
                    tasks, chan, mt_errors, threads, wtask, wsent, dpc, entry,
                    pred, count, ret, begins, pre, reads, dropped, pushed, started, rdVars >>

\* run_thread, `tasks.lock().unwrap().pop_front()`
WPop(w) ==
    /\ dpc = "begin" /\ wpc[w] = "pop"
    /\ IF tasks # << >>
       THEN /\ wtask' = [ wtask EXCEPT ![w] = Head(tasks) ]
            /\ tasks' = Tail(tasks)
            /\ wpc' = [ wpc EXCEPT ![w] = "inc" ]
       ELSE /\ wpc' = [ wpc EXCEPT ![w] = "idle" ]
            /\ UNCHANGED << wtask, tasks >>
    /\ UNCHANGED << fixture, mode, nworkers, nodes, entries, st_errors, running,
                    chan, mt_errors, threads, wsent, dpc, entry,
                    pred, count, ret, begins, pre, reads, dropped, pushed, started, rdVars >>

\* run_thread, no task found: `if threads.load(Relaxed) == 0 { break }`,
\* otherwise yield_now and continue
WIdle(w) ==
    /\ dpc = "begin" /\ wpc[w] = "idle"
    /\ wpc' = [ wpc EXCEPT ![w] = IF threads = 0 THEN "done" ELSE "loop" ]
    /\ UNCHANGED << fixture, mode, nworkers, nodes, entries, st_errors, running,
                    tasks, chan, mt_errors, threads, wtask, wsent, dpc, entry,
                    pred, count, ret, begins, pre, reads, dropped, pushed, started, rdVars >>

\* run_thread, `threads.fetch_add(1, Relaxed)`
WInc(w) ==
    /\ dpc = "begin" /\ wpc[w] = "inc"
    /\ threads' = threads + 1
    /\ wpc' = [ wpc EXCEPT ![w] = "read" ]
    /\ UNCHANGED << fixture, mode, nworkers, nodes, entries, st_errors, running,
                    tasks, chan, mt_errors, wtask, wsent, dpc, entry,
                    pred, count, ret, begins, pre, reads, dropped, pushed, started, rdVars >>

\* (a faulty variant of WSend: the item overtakes what waits in the channel)
WSendFront(w) ==
    /\ dpc = "begin" /\ wpc[w] = "read"
    /\ wsent[w] < Len(WReports(w))
    /\ chan' = << WReports(w)[wsent[w] + 1] >> \o chan
    /\ wsent' = [ wsent EXCEPT ![w] = @ + 1 ]
    /\ UNCHANGED << fixture, mode, nworkers, nodes, entries, st_errors, running,
                    tasks, mt_errors, threads, wpc, wtask, dpc, entry,
                    pred, count, ret, begins, pre, reads, dropped, pushed, started, rdVars >>

\* run_thread inside read_dir: one callback, `entries.send(..).unwrap()`
WSend(w) ==
    /\ dpc = "begin" /\ wpc[w] = "read"
    /\ wsent[w] < Len(WReports(w))
    /\ chan' = Append(chan, WReports(w)[wsent[w] + 1])
    /\ wsent' = [ wsent EXCEPT ![w] = @ + 1 ]
    /\ UNCHANGED << fixture, mode, nworkers, nodes, entries, st_errors, running,
                    tasks, mt_errors, threads, wpc, wtask, dpc, entry,
                    pred, count, ret, begins, pre, reads, dropped, pushed, started, rdVars >>

\* (a faulty variant of WDec: the worker forgets fetch_sub)
WDecForgotten(w) ==
    /\ dpc = "begin" /\ wpc[w] = "read"
    /\ wsent[w] = Len(WReports(w))
    /\ wpc' = [ wpc EXCEPT ![w] = "loop" ]
    /\ wtask' = [ wtask EXCEPT ![w] = None ]
    /\ wsent' = [ wsent EXCEPT ![w] = 0 ]
    /\ UNCHANGED << fixture, mode, nworkers, nodes, entries, st_errors, running,
                    tasks, chan, mt_errors, threads, dpc, entry,
                    pred, count, ret, begins, pre, reads, dropped, pushed, started, rdVars >>

\* run_thread, read_dir has returned: `threads.fetch_sub(1, Relaxed)`
WDec(w) ==
    /\ dpc = "begin" /\ wpc[w] = "read"
    /\ wsent[w] = Len(WReports(w))
    /\ threads' = threads - 1
    /\ wpc' = [ wpc EXCEPT ![w] = "loop" ]
    /\ wtask' = [ wtask EXCEPT ![w] = None ]
    /\ wsent' = [ wsent EXCEPT ![w] = 0 ]
    /\ UNCHANGED << fixture, mode, nworkers, nodes, entries, st_errors, running,
                    tasks, chan, mt_errors, dpc, entry,
                    pred, count, ret, begins, pre, reads, dropped, pushed, started, rdVars >>

\* mt::Source::begin, after thread::scope has joined every worker
MtJoin ==
    /\ dpc = "begin"
    /\ \A w \in Workers : wpc[w] = "done"
    /\ running' = FALSE
    /\ dpc' = "idle"
    /\ UNCHANGED << fixture, mode, nworkers, nodes, entries, st_errors,
                    tasks, chan, mt_errors, threads, wpc, wtask, wsent, entry,
                    pred, count, ret, begins, pre, reads, dropped, pushed, started, rdVars >>

\* ------------------------------------------------------------- the driver
\* DuSource::enqueue called on the source before it is handed to Du::new
\* (the trait and both sources are public); the arena has its root only
SrcEnqueue(path) ==
    /\ dpc = "idle" /\ begins = 0 /\ pre < MaxPre
    /\ pre' = pre + 1
    /\ IF mode = "st"
       THEN LET s == StEnqueue(entries, st_errors, ROOT, path)
            IN  /\ entries' = s.entries
                /\ st_errors' = s.errors
                /\ UNCHANGED tasks
       ELSE /\ tasks' = MtEnqueue(tasks, ROOT, path)
            /\ UNCHANGED << entries, st_errors >>
    /\ UNCHANGED << fixture, mode, nworkers, nodes, running, chan, mt_errors,
                    threads, wpc, wtask, wsent, dpc, entry, pred, count, ret,
                    begins, reads, dropped, pushed, started, rdVars >>

\* DuSource::finish, called on the source by its owner before Du::new (Du
\* keeps the source private afterwards, and the predicates of Preds do not
\* touch it).  It cannot run while begin() runs: both take `&mut self`.  The
\* sequential finish() is a no-op; the parallel one stores false in `running`.
SrcFinish ==
    /\ dpc = "idle" /\ begins = 0
    /\ running' = (IF mode = "mt" THEN FALSE ELSE running)
    /\ UNCHANGED << fixture, mode, nworkers, nodes, entries, st_errors, tasks,
                    chan, mt_errors, threads, wpc, wtask, wsent, dpc, entry,
                    pred, count, ret, begins, pre, reads, dropped, pushed,
                    started, rdVars >>

\* Du::begin: enqueue(ROOT, path), then the source's begin().  The sequential
\* begin() is a no-op; the parallel one sets running, spawns the workers and
\* waits for them in MtJoin.  A traversal begins once.
DuBegin ==
    /\ dpc = "idle" /\ begins = 0
    /\ begins' = begins + 1
    /\ IF mode = "st"
       THEN LET s == StEnqueue(entries, st_errors, ROOT, RootPath)
            IN  /\ entries' = s.entries
                /\ st_errors' = s.errors
                /\ UNCHANGED << tasks, running, threads, wpc, dpc, started >>
       ELSE /\ tasks' = MtEnqueue(tasks, ROOT, RootPath)
            /\ started' = tasks'
            /\ running' = TRUE
            /\ threads' = 0
            /\ wpc' = [ w \in Workers |-> "loop" ]
            /\ dpc' = "begin"
            /\ UNCHANGED << entries, st_errors >>
    /\ UNCHANGED << fixture, mode, nworkers, nodes, chan, mt_errors, wtask, wsent,
                    entry, pred, count, ret, pre, reads, dropped, pushed, rdVars >>

\* the predicates handed to Du::read: always true, or true `left` times
Preds == { [ always |-> TRUE, left |-> 0 ] }
            \cup { [ always |-> FALSE, left |-> k ] : k \in 0..MaxBudget }

\* Du::read is called: `let mut count = 0`.  A traversal is a begin followed
\* by reads, so the driver reads once it has begun.
DuRead(with) ==
    /\ dpc = "idle" /\ begins >= 1 /\ reads < MaxReads
    /\ reads' = reads + 1
    /\ dpc' = "read"
    /\ count' = 0
    /\ pred' = with
    /\ entry' = None
    /\ UNCHANGED << fixture, mode, nworkers, nodes, entries, st_errors, running,
                    tasks, chan, mt_errors, threads, wpc, wtask, wsent,
                    ret, begins, pre, dropped, pushed, started, rdVars >>

\* one evaluation of the condition of the `while let` of Du::read and, when it
\* holds, one turn of its body
DuReadIter ==
    /\ dpc = "read"
    /\ LET nx == IF mode = "st"
                 THEN [ StNextEntry(entries) EXCEPT !.panic = FALSE ]
                      @@ [ chan |-> chan, errors |-> mt_errors ]
                 ELSE MtNextEntry(chan, mt_errors) @@ [ entries |-> entries ]
           yes == pred.always \/ pred.left > 0
       IN  /\ entry' = nx.got
           /\ chan' = nx.chan
           /\ mt_errors' = nx.errors
           /\ IF nx.panic
              THEN /\ dpc' = "panic"
                   /\ UNCHANGED << nodes, entries, st_errors, tasks, pred, count,
                                   ret, dropped, pushed >>
              ELSE IF nx.got = None
              THEN /\ dpc' = "idle"
                   /\ ret' = count
                   /\ entries' = nx.entries
                   /\ UNCHANGED << nodes, st_errors, tasks, pred, count, dropped, pushed >>
              ELSE IF ~yes
              THEN /\ dpc' = "idle"
                   /\ ret' = count
                   /\ entries' = nx.entries
                   /\ dropped' = dropped + 1
                   /\ UNCHANGED << nodes, st_errors, tasks, pred, count, pushed >>
              ELSE LET e == nx.got[1]
                       is_dir == e.info.kind = "Dir"
                       next == NodeIdNew(Len(nodes))
                       s == StEnqueue(nx.entries, st_errors, next, e.path)
                   IN  /\ nodes' = StatsPush(nodes, e.parent, e.info)
                       /\ pushed' = Append(pushed, e.info)
                       /\ IF is_dir /\ mode = "st"
                          THEN entries' = s.entries /\ st_errors' = s.errors
                          ELSE entries' = nx.entries /\ UNCHANGED st_errors
                       /\ IF is_dir /\ mode = "mt"
                          THEN tasks' = MtEnqueue(tasks, next, e.path)
                          ELSE UNCHANGED tasks
                       /\ count' = count + 1
                       /\ pred' = [ pred EXCEPT !.left = IF pred.always THEN 0 ELSE @ - 1 ]
                       /\ UNCHANGED << dpc, ret, dropped >>
    /\ UNCHANGED << fixture, mode, nworkers, running, threads, wpc, wtask, wsent,
                    begins, pre, reads, started, rdVars >>

\* ---------------------------------------------------------- specification
\* Du::new on a fresh source (Source::default), over some fixture
InitDu ==
    /\ fixture \in Fixtures
    /\ mode \in { "st", "mt" }
    /\ nworkers \in (IF mode = "st" THEN { 1 } ELSE 1..MaxWorkers)
    /\ nodes = StatsDefault
    /\ entries = << >>
    /\ st_errors = << >>
    /\ running = FALSE
    /\ tasks = << >>
    /\ chan = << >>
    /\ mt_errors = << >>
    /\ threads = 0
    /\ wpc = [ w \in Workers |-> "none" ]
    /\ wtask = [ w \in Workers |-> None ]
    /\ wsent = [ w \in Workers |-> 0 ]
    /\ dpc = "idle"
    /\ entry = None
    /\ pred = [ always |-> TRUE, left |-> 0 ]
    /\ count = 0
    /\ ret = 0
    /\ begins = 0
    /\ pre = 0
    /\ reads = 0
    /\ dropped = 0
    /\ pushed = << InfoDefault >>
    /\ started = << >>

Init ==
    /\ InitDu
    /\ rd_dir = DirLocked
    /\ rd_reports = << >>
    /\ rd_pc = "off"

Next ==
    \/ \E path \in DOMAIN fixture : SrcEnqueue(path)
    \/ SrcFinish
    \/ DuBegin
    \/ \E with \in Preds : DuRead(with)
    \/ DuReadIter
    \/ \E w \in Workers : WLoop(w)
    \/ \E w \in Workers : WPop(w)
    \/ \E w \in Workers : WIdle(w)
    \/ \E w \in Workers : WInc(w)
    \/ \E w \in Workers : WSend(w)
    \/ \E w \in Workers : WDec(w)
    \/ MtJoin

Spec == Init /\ [][Next]_vars

\* one step of worker w
WStep(w) ==
    /\ w \in Workers
    /\ (WLoop(w) \/ WPop(w) \/ WIdle(w) \/ WInc(w) \/ WSend(w) \/ WDec(w))

\* ------------------------------------------ one call of parallel begin()
\* The parallel source from its construction to the return of begin(): tasks
\* are enqueued, begin() runs the workers; nothing is read back yet.  The
\* fixtures are those of at most two directories.
InitBegin == Init /\ mode = "mt" /\ fixture # FxLockedSub

NextBegin ==
    \/ \E path \in DOMAIN fixture : SrcEnqueue(path)
    \/ DuBegin
    \/ \E w \in Workers : WStep(w)
    \/ MtJoin

SpecBegin == InitBegin /\ [][NextBegin]_vars

\* the scheduler runs every spawned thread again and again (yield_now hands
\* the processor over, it does not park the thread), and the scope's join
\* returns once every worker has exited
FairBegin ==
    /\ SpecBegin
    /\ \A w \in 1..MaxWorkers : WF_vars(WStep(w))
    /\ WF_vars(MtJoin)

\* ------------------------------------------- the arena under any pushes
\* Stats::push called with any existing node as parent, any kind, any of a
\* few sizes, in any order.
PushSizes == { 0, 3 }

InitPush ==
    /\ Init
    /\ fixture = FxEmpty /\ mode = "st"

PushAny(parent, kind, size) ==
    /\ Len(nodes) <= MaxPushes
    /\ parent \in 1..Len(nodes)
    /\ nodes' = StatsPush(nodes, parent, InfoNew("n", kind, size))
    /\ pushed' = Append(pushed, InfoNew("n", kind, size))
    /\ UNCHANGED << duVars, rdVars >>

NextPush ==
    \E parent \in 1..Len(nodes), kind \in Kinds, size \in PushSizes :
        PushAny(parent, kind, size)

SpecPush == InitPush /\ [][NextPush]_vars

\* ------------------------------------------------------ read_dir by itself
\* read_dir applied to any directory of at most MaxItems items.
ItemName(i) == ToString(i)

ItemShapes(i) ==
    { ItemOk("dir", 1, ItemName(i)), ItemOk("file", 2, ItemName(i)),
      ItemOk("symlink", 0, ItemName(i)),
      ItemBad("list", ItemName(i)), ItemBad("meta", ItemName(i)) }

Listings ==
    UNION { { l \in [ 1..n -> UNION { ItemShapes(i) : i \in 1..n } ] :
                \A i \in 1..n : l[i] \in ItemShapes(i) } : n \in 0..MaxItems }

InitReadDir ==
    /\ InitDu
    /\ fixture = FxEmpty /\ mode = "st"
    /\ rd_dir \in { DirLocked } \cup { DirOk(l) : l \in Listings }
    /\ rd_reports = << >>
    /\ rd_pc = "call"

ReadDirCall ==
    /\ rd_pc = "call"
    /\ rd_reports' = ReadDir(ROOT, RootPath, rd_dir)
    /\ rd_pc' = "done"
    /\ UNCHANGED << duVars, nodes, pushed, rd_dir >>

NextReadDir == ReadDirCall

SpecReadDir == InitReadDir /\ [][NextReadDir]_vars

\* -------------------------------------------- the sequential traversal
\* Du::read with an always-true predicate over the sequential source, run to
\* the end from arena ns, stack ents and error list errs.
RECURSIVE StDrain(_, _, _)
StDrain(ns, ents, errs) ==
    LET nx == StNextEntry(ents)
    IN  IF nx.got = None THEN [ nodes |-> ns, errors |-> errs ]
        ELSE LET e == nx.got[1]
                 s == IF e.info.kind = "Dir"
                      THEN StEnqueue(nx.entries, errs, NodeIdNew(Len(ns)), e.path)
                      ELSE [ entries |-> nx.entries, errors |-> errs ]
             IN  StDrain(StatsPush(ns, e.parent, e.info), s.entries, s.errors)

\* Du::begin(RootPath) then Du::read(always true) on a fresh sequential Du
StTraversal ==
    LET s == StEnqueue(<< >>, << >>, ROOT, RootPath)
    IN  StDrain(StatsDefault, s.entries, s.errors)

\* ================================================================ claims
\* an arena up to child order: each node as (its Info, the name of its parent)
ArenaView(ns) == { << ns[n].info, ns[ns[n].parent].info.name >> : n \in 1..Len(ns) }
SetOf(seq) == { seq[i] : i \in 1..Len(seq) }

\* on a fresh source, every predicate evaluation so far said true and the
\* traversal has come to its end: the last read returned without an entry, or died
DriveEnded ==
    /\ pre = 0 /\ begins = 1 /\ reads >= 1 /\ dropped = 0
    /\ \/ dpc = "panic"
       \/ dpc = "idle" /\ ret = 0

\* the same, ended by a normal return
DriveComplete == DriveEnded /\ dpc = "idle"

NodesNamed(name) == { n \in 1..Len(nodes) : nodes[n].info.name = name }
\* the descendants of node n, following the children lists
RECURSIVE Descendants(_, _)
Descendants(ns, n) ==
    LET cs == { ns[n].children[i] : i \in 1..Len(ns[n].children) }
    IN  cs \cup UNION { Descendants(ns, c) : c \in cs }

RECURSIVE SumOwn(_, _)
SumOwn(ids, field) ==
    IF ids = { } THEN 0
    ELSE LET m == CHOOSE x \in ids : TRUE
         IN  pushed[m][field] + SumOwn(ids \ { m }, field)

OwnCountsOk(n) ==
    /\ pushed[n].files = B2N(nodes[n].info.kind = "File")
    /\ pushed[n].dirs = B2N(nodes[n].info.kind = "Dir")
    /\ pushed[n].other = B2N(nodes[n].info.kind = "Other")
    /\ pushed[n].files + pushed[n].dirs + pushed[n].other = 1

\* C1: after any sequence of pushes, every node's size/files/dirs/other is
\* its own contribution (own size, 1 in the counter of its kind) plus the
\* own contributions of all of its descendants.
C1_Aggregation ==
    \A n \in 1..Len(nodes) :
        /\ OwnCountsOk(n)
        /\ \A field \in { "size", "files", "dirs", "other" } :
              nodes[n].info[field] = SumOwn({ n } \cup Descendants(nodes, n), field)

\* C1 witness: a node two levels below the root, with a sized descendant
C1_Witness ==
    /\ Len(nodes) = MaxPushes + 1
    /\ \E n \in 1..Len(nodes) :
          /\ nodes[n].parent # ROOT
          /\ nodes[nodes[n].parent].parent = ROOT
          /\ pushed[n].size > 0
          /\ nodes[nodes[n].parent].info.kind = "Dir"

\* C7: read_dir on a directory that opens reports every listed item, each
\* once: the resolving ones through on_entry, the failing ones through
\* on_error, so the reports are as many as the listed items.
C7_EveryItemReported ==
    (rd_pc = "done" /\ rd_dir.open) =>
        /\ Len(rd_reports) = Len(rd_dir.items)
        /\ \A i \in 1..Len(rd_dir.items) :
              rd_dir.items[i].st = "ok" =>
                  \E j \in 1..Len(rd_reports) :
                      /\ rd_reports[j].ok
                      /\ rd_reports[j].entry[1].path = Append(RootPath, rd_dir.items[i].name)

\* C2: on the same fixture the parallel drive ends with the arena of the
\* sequential drive up to child order (same nodes, same aggregates) and the
\* same set of errors.
C2_Parity ==
    (mode = "mt" /\ DriveEnded) =>
        /\ ArenaView(nodes) = ArenaView(StTraversal.nodes)
        /\ SetOf(mt_errors) = SetOf(StTraversal.errors)

\* C3: under fair scheduling the parallel begin() returns.
C3_BeginReturns == (dpc = "begin") ~> (dpc = "idle")

\* C3 witness: a begin() that found several tasks queued, with two workers,
\* has returned
C3_Witness ==
    /\ mode = "mt" /\ nworkers = MaxWorkers /\ pre = MaxPre /\ begins = 1
    /\ dpc = "idle" /\ tasks = << >> /\ Len(chan) >= 4

\* C4: during a traversal, once the queue is empty and no worker is active,
\* no task enters the queue any more.
C4_QuiescenceIsFinal ==
    [][ (mode = "mt" /\ begins = 1 /\ begins' = 1 /\ tasks = << >> /\ threads = 0)
            => tasks' = << >> ]_vars

\* C5: the parallel next_entry() on an empty channel returns an absent result
\* and leaves channel, queue and error list as they were.
C5_EmptyPollReturnsNone ==
    [][ (mode = "mt" /\ dpc = "read" /\ chan = << >>)
            => /\ dpc' = "idle" /\ entry' = None
               /\ UNCHANGED << chan, tasks, mt_errors >> ]_vars

\* C6: next_entry() returns an absent result only when no produced entry is
\* ready (none on the sequential stack, none waiting in the channel).
C6_AbsentOnlyWhenNoneReady ==
    [][ (dpc = "read" /\ dpc' # "panic" /\ entry' = None)
            => /\ mode = "st" => entries = << >>
               /\ mode = "mt" => \A i \in 1..Len(chan) : ~chan[i].ok ]_vars

\* C8: with root/{s1/{f}, locked/ (open fails), s2/{g}}, either source ends
\* with `locked` in the arena as one directory without descendants, s1 and
\* s2 aggregated with their files, and exactly one error.
C8_LockedSubdir ==
    (fixture = FxLockedSub /\ DriveEnded) =>
        /\ \E n \in NodesNamed("locked") :
              /\ nodes[n].info.dirs = 1 /\ nodes[n].info.files = 0
              /\ nodes[n].info.other = 0 /\ nodes[n].children = << >>
        /\ \E n \in NodesNamed("s1") :
              /\ nodes[n].info.size = 1 + 3 /\ nodes[n].info.files = 1
              /\ nodes[n].info.dirs = 1 /\ Len(nodes[n].children) = 1
        /\ \E n \in NodesNamed("s2") :
              /\ nodes[n].info.size = 1 + 4 /\ nodes[n].info.files = 1
              /\ nodes[n].info.dirs = 1 /\ Len(nodes[n].children) = 1
        /\ Len(Errors) = 1

\* C9: when the root cannot be opened, begin and one read with an always-true
\* predicate end normally with the root alone in the arena, a return of 0
\* and exactly one error, for either source.
C9_LockedRoot ==
    (~fixture[RootPath].open /\ pre = 0 /\ begins = 1 /\ reads = 1 /\ pred.always) =>
        /\ dpc # "panic"
        /\ dpc = "idle" => (Len(nodes) = 1 /\ ret = 0 /\ Len(Errors) = 1)

\* C9 witness: the parallel source, root locked, after begin and one read
C9_Witness ==
    /\ mode = "mt" /\ ~fixture[RootPath].open
    /\ pre = 0 /\ begins = 1 /\ reads = 1 /\ pred.always /\ dpc = "idle"
    /\ mt_errors = << << RootPath, "open" >> >>

CountKind(kind) == Cardinality({ n \in 2..Len(nodes) : pushed[n].kind = kind })

\* C10: after a complete traversal the root aggregate counts the root as one
\* directory: dirs = 1 + directories below, files and other = those below,
\* size = the sum of the entries' sizes.
C10_RootIsOneDir ==
    DriveComplete =>
        /\ StatsHead.info.dirs = 1 + CountKind("Dir")
        /\ StatsHead.info.files = CountKind("File")
        /\ StatsHead.info.other = CountKind("Other")
        /\ StatsHead.info.size = SumOwn(2..Len(nodes), "size")

\* one turn of the `while let` of Du::read that got an entry from the source
Pulled == dpc = "read" /\ entry' # None

\* the source gave up exactly the entry it returned: the top of the stack,
\* or the head of the channel
PulledRemoved ==
    IF mode = "st"
    THEN /\ entries # << >> /\ entry' = Some(entries[Len(entries)])
         /\ Len(entries') >= Len(entries) - 1
         /\ SubSeq(entries', 1, Len(entries) - 1) = SubSeq(entries, 1, Len(entries) - 1)
         /\ \A i \in Len(entries)..Len(entries') : entries'[i] # entries[Len(entries)]
    ELSE chan # << >> /\ Head(chan).ok /\ entry' = Some(Head(chan).entry[1])
                     /\ chan' = Tail(chan)

\* C11: in Du::read the predicate is consulted once per pulled entry, before
\* the entry is applied: on false the entry is gone from the source, nothing
\* is pushed or queued and the call returns; on true exactly one node is
\* added; the returned count is the number of nodes the call added.
C11_ReadPredicate ==
    [][ /\ Pulled =>
            /\ PulledRemoved
            /\ IF pred.always \/ pred.left > 0
               THEN /\ Len(nodes') = Len(nodes) + 1 /\ count' = count + 1
                    /\ dpc' = "read"
                    /\ ~pred.always => pred'.left = pred.left - 1
               ELSE /\ dpc' = "idle" /\ ret' = count
                    /\ nodes' = nodes /\ tasks' = tasks /\ st_errors' = st_errors
                    /\ mode = "st" => entries' = SubSeq(entries, 1, Len(entries) - 1)
        /\ dpc = "read" => count' - count = Len(nodes') - Len(nodes)
        /\ (dpc = "read" /\ dpc' = "idle") => ret' = count'
        /\ (dpc = "idle" /\ dpc' = "read") => count' = 0
      ]_vars

\* C11 witness: a read with a budget of two has added two nodes, dropped the
\* third entry it pulled and returned 2
C11_Witness ==
    /\ dpc = "idle" /\ reads = 1 /\ dropped = 1 /\ ret = 2
    /\ ~pred.always /\ pred.left = 0 /\ entry # None /\ Len(nodes) = 3

\* C12: every entry a read pulls from the source is applied to the arena:
\* pushed under its parent, and its directory task enqueued.
C12_NoPulledEntryLost ==
    [][ Pulled =>
            LET e == entry'[1]
            IN  /\ Len(nodes') = Len(nodes) + 1
                /\ nodes'[Len(nodes')].parent = e.parent
                /\ nodes'[e.parent].children = Append(nodes[e.parent].children, Len(nodes'))
                /\ (e.info.kind = "Dir" /\ mode = "mt") =>
                       tasks' = Append(tasks, << Len(nodes'), e.path >>)
                /\ (e.info.kind = "Dir" /\ mode = "st") =>
                       /\ Len(entries') = Len(entries) - 1
                                          + Len(EntriesOf(ReadDir(Len(nodes'), e.path, DirAt(e.path))))
                       /\ Len(st_errors') = Len(st_errors)
                                          + Len(ErrorsOf(ReadDir(Len(nodes'), e.path, DirAt(e.path))))
      ]_vars

\* C13: with the sequential source, a traversal in which some read was
\* stopped by its predicate and which was then read on with an always-true
\* predicate until no entry came back ends with the arena of an
\* uninterrupted begin plus read to exhaustion.
C13_ResumeReachesSameArena ==
    ( /\ mode = "st" /\ pre = 0 /\ begins = 1 /\ dropped >= 1
      /\ dpc = "idle" /\ pred.always /\ entry = None /\ entries = << >> )
        => ArenaView(nodes) = ArenaView(StTraversal.nodes)

\* the entries the driver has received through next_entry() so far, in order
\* (each applied entry is a node, in push order), followed by the entries it
\* will receive next (those waiting in the channel), each as (parent, name)
ReceiveOrder ==
    [ i \in 1..(Len(nodes) - 1) |-> << nodes[i + 1].parent, nodes[i + 1].info.name >> ]
    \o [ i \in 1..Len(EntriesOf(chan)) |->
             << EntriesOf(chan)[i].parent, EntriesOf(chan)[i].info.name >> ]

\* the entries read_dir enumerates for a task, in order, as (parent, name)
EnumOrder(task) ==
    LET es == EntriesOf(ReadDir(task[1], task[2], DirAt(task[2])))
    IN  [ i \in 1..Len(es) |-> << es[i].parent, es[i].info.name >> ]

IsPrefix(s, t) == Len(s) <= Len(t) /\ s = SubSeq(t, 1, Len(s))

\* the part of the receive order that belongs to one task
ReceivedOf(task) ==
    LET mine(x) == x \in SetOf(EnumOrder(task))
    IN  SelectSeq(ReceiveOrder, mine)

ListedOnce(task) == Cardinality({ i \in 1..Len(started) : started[i] = task }) = 1

\* C14: with the parallel source, under every interleaving of the workers,
\* the entries of one directory reach the driver in the order read_dir
\* enumerated them; entries of other directories may come in between.
C14_DirectoryOrderKept ==
    (mode = "mt" /\ dropped = 0) =>
        \A t \in SetOf(started) :
            ListedOnce(t) => IsPrefix(ReceivedOf(t), EnumOrder(t))

\* C14 witness: two workers listed root and root/sub side by side, and the
\* driver received b.txt of sub between a.txt and sub of root
C14_Witness ==
    /\ mode = "mt" /\ fixture = FxScenario /\ dropped = 0 /\ Len(nodes) = 4
    /\ nodes[2].info.name = "a.txt" /\ nodes[3].info.name = "b.txt"
    /\ nodes[4].info.name = "sub"

\* While begin() runs (the only time workers exist) the running flag is set:
\* begin() stores true before it spawns and false after it has joined, and
\* finish() needs the `&mut self` that begin() holds.
FlagSetWhileWorkersRun ==
    /\ dpc = "begin" => running
    /\ (\E w \in Workers : wpc[w] \in { "pop", "idle", "inc", "read" }) => dpc = "begin"

\* how often node n stands in the children list of node m
TimesChildOf(ns, n, m) ==
    Cardinality({ i \in 1..Len(ns[m].children) : ns[m].children[i] = n })

\* the ancestor walk from n arrives at the root within k steps
RECURSIVE ReachesRoot(_, _, _)
ReachesRoot(ns, n, k) ==
    IF ns[n].parent = n THEN n = ROOT
    ELSE k > 0 /\ ReachesRoot(ns, ns[n].parent, k - 1)

ArenaStructureOk(ns) ==
    /\ Len(ns) >= 1 /\ ns[ROOT].parent = ROOT
    /\ \A n \in 2..Len(ns) : ns[n].parent \in 1..(n - 1)
    /\ \A n \in 1..Len(ns), m \in 1..Len(ns) :
          TimesChildOf(ns, n, m) = B2N(n # ROOT /\ m = ns[n].parent)
    /\ \A m \in 1..Len(ns) : \A i \in 1..Len(ns[m].children) :
          /\ ns[m].children[i] \in 2..Len(ns)
          /\ i > 1 => ns[m].children[i - 1] < ns[m].children[i]
    /\ \A n \in 1..Len(ns) : ReachesRoot(ns, n, Len(ns))

\* a push keeps every existing node in its place, under its parent, with its
\* children, and gives the new node the next id
ArenaKept(old, new) ==
    /\ Len(new) = Len(old) + 1
    /\ \A n \in 1..Len(old) :
          /\ new[n].parent = old[n].parent
          /\ new[n].info.name = old[n].info.name /\ new[n].info.kind = old[n].info.kind
          /\ IsPrefix(old[n].children, new[n].children)
    /\ new[Len(new)].children = << >>

\* C16: after any sequence of pushes the ids are the positions 1..n in
\* allocation order (NodeId stores id + 1), no node is removed, moved or
\* re-parented, the root alone is its own parent, every other parent has a
\* smaller id, every non-root node stands exactly once in its parent's
\* children list and in no other, and the ancestor walk ends at the root.
C16_ArenaStructure ==
    [][ /\ ArenaStructureOk(nodes) /\ ArenaStructureOk(nodes')
        /\ nodes' # nodes => ArenaKept(nodes, nodes') ]_vars

\* C16 witness: MaxPushes pushes built a chain below a node that also has a
\* second child
C16_Witness ==
    /\ Len(nodes) = MaxPushes + 1 /\ Len(pushed) = Len(nodes)
    /\ \E m \in 2..Len(nodes) :
          /\ Len(nodes[m].children) = 1
          /\ nodes[m].parent = ROOT /\ Len(nodes[ROOT].children) = 2

\* C17: with the parallel source every task put in the queue (the root task
\* and each follow-up task of a Dir entry) is claimed by a worker and its
\* directory read; so when begin(path) and the reads that follow have come
\* to their end, no task is left waiting in the queue.
C17_NoTaskLeftWaiting ==
    (mode = "mt" /\ DriveEnded) => tasks = << >>

\* C18: whenever a worker leaves its loop through the idle path (queue found
\* empty, active-worker count read as zero), no other worker holds a task
\* that it has dequeued and not yet finished reading.
C18_IdleExitIsSound ==
    [][ \A w \in Workers :
            (wpc[w] = "idle" /\ wpc'[w] = "done") =>
                \A v \in Workers \ { w } : wtask[v] = None ]_vars

\* how often x stands in a sequence
TimesIn(seq, x) == Cardinality({ i \in 1..Len(seq) : seq[i] = x })

\* what one read_dir call per task of a queue reports, in queue order
RECURSIVE ReportsOfQueue(_)
ReportsOfQueue(q) ==
    IF q = << >> THEN << >>
    ELSE ReadDir(Head(q)[1], Head(q)[2], DirAt(Head(q)[2])) \o ReportsOfQueue(Tail(q))

\* the parallel begin() has just returned (nothing has been received yet)
BeginReturned == mode = "mt" /\ begins = 1 /\ dpc = "idle" /\ reads = 0

\* C19: when the parallel begin() returns, for any number of workers and any
\* interleaving, the queue is empty, the active-worker count is zero, the
\* running flag is false, and every task that was queued when begin()
\* started has been read exactly once: the channel holds the reports of one
\* read_dir call per task, entries and errors, no more and no less.
C19_BeginReadsEachTaskOnce ==
    BeginReturned =>
        /\ tasks = << >> /\ threads = 0 /\ ~running
        /\ \A w \in Workers : wtask[w] = None /\ wpc[w] = "done"
        /\ Len(chan) = Len(ReportsOfQueue(started))
        /\ \A r \in SetOf(chan) \cup SetOf(ReportsOfQueue(started)) :
              TimesIn(chan, r) = TimesIn(ReportsOfQueue(started), r)

\* C19 witness: begin() found two tasks queued, two workers read them, and
\* the channel holds entries and an error
C19_Witness ==
    /\ BeginReturned /\ nworkers = MaxWorkers /\ Len(started) = 2
    /\ \E i \in 1..Len(chan) : chan[i].ok
    /\ \E i \in 1..Len(chan) : ~chan[i].ok
    /\ Len(chan) >= 3

\* the path of a node of a traversal begun at RootPath
RECURSIVE NodePath(_, _)
NodePath(ns, n) ==
    IF n = ROOT THEN RootPath ELSE Append(NodePath(ns, ns[n].parent), ns[n].info.name)

\* every enqueue call of a sequential traversal begun on a fresh source: the
\* one of Du::begin and one per Dir node pushed by Du::read
StEnqueueCalls ==
    { << ROOT, RootPath >> }
    \cup { << n, NodePath(nodes, n) >> : n \in { m \in 2..Len(nodes) : pushed[m].kind = "Dir" } }

\* the entries those calls produced, each as (parent, name)
StProduced ==
    UNION { SetOf(EnumOrder(c)) : c \in StEnqueueCalls }

\* the entries returned by next_entry (each is a node) and those on the stack
StReturned == [ i \in 1..(Len(nodes) - 1) |-> << nodes[i + 1].parent, nodes[i + 1].info.name >> ]
StBuffered == [ i \in 1..Len(entries) |-> << entries[i].parent, entries[i].info.name >> ]

StEachOnce ==
    (mode = "st" /\ pre = 0 /\ begins = 1 /\ dropped = 0) =>
        /\ SetOf(StReturned) \cup SetOf(StBuffered) = StProduced
        /\ \A x \in StProduced : TimesIn(StReturned, x) + TimesIn(StBuffered, x) = 1
        /\ Len(st_errors) = Cardinality(UNION {
               { << c, i >> : i \in 1..Len(ErrorsOf(ReadDir(c[1], c[2], DirAt(c[2])))) }
                   : c \in StEnqueueCalls })

\* an enqueue call of the sequential source on (parent, path), and nothing else
StEnqueued(parent, path) ==
    LET reports == ReadDir(parent, path, DirAt(path))
    IN  /\ entries' = entries \o EntriesOf(reports)
        /\ st_errors' = st_errors \o ErrorsOf(reports)

\* C20: the sequential source lists a directory inside enqueue, entries onto
\* the stack and failures onto the error list; next_entry returns the most
\* recently buffered entry not yet returned; every produced entry is
\* returned exactly once; begin() and finish() add and remove nothing.
C20_SequentialBuffering ==
    [][ /\ StEachOnce'
        /\ (mode = "st" /\ pre' = pre + 1) =>
               \E path \in DOMAIN fixture : StEnqueued(ROOT, path)
        /\ (mode = "st" /\ begins' = begins + 1) => StEnqueued(ROOT, RootPath)
        /\ (mode = "st" /\ dpc = "read") =>
               IF entries = << >>
               THEN entry' = None /\ entries' = entries /\ st_errors' = st_errors
                    /\ dpc' = "idle"
               ELSE /\ entry' = Some(entries[Len(entries)])
                    /\ IF nodes' # nodes /\ entry'[1].info.kind = "Dir"
                       THEN LET rest == SubSeq(entries, 1, Len(entries) - 1)
                                reports == ReadDir(Len(nodes'), entry'[1].path,
                                                   DirAt(entry'[1].path))
                            IN  /\ entries' = rest \o EntriesOf(reports)
                                /\ st_errors' = st_errors \o ErrorsOf(reports)
                       ELSE /\ entries' = SubSeq(entries, 1, Len(entries) - 1)
                            /\ st_errors' = st_errors
        /\ (mode = "st" /\ pre' = pre /\ begins' = begins /\ dpc # "read") =>
               entries' = entries /\ st_errors' = st_errors
      ]_vars

\* C20 witness: the sequential traversal of root/{s1/{f}, locked/, s2/{g}}
\* has returned every entry and buffered the one failure
C20_Witness ==
    /\ mode = "st" /\ fixture = FxLockedSub /\ pre = 0 /\ begins = 1 /\ dropped = 0
    /\ dpc = "idle" /\ entries = << >> /\ Len(nodes) = 6 /\ Len(st_errors) = 1

====
